---- MODULE Spec2Model ----
(***************************************************************************)
(* ESP32-C6 LD2410C radar relay (src/src/main.cpp): setup() and loop() as  *)
(* a state machine.  The ld2410 library (the radar object) and the core    *)
(* (millis, delay, Serial) are the environment: every value they return is *)
(* an input of the action that calls them.  A blocking library call splits *)
(* the code into the action that issues it and the action that takes its   *)
(* return value.                                                           *)
(*                                                                         *)
(* Times are 32 bits wide in the code and TLC's integers are not, so a     *)
(* time is a pair <<hi, lo>> of 16-bit limbs, value hi * 65536 + lo.  The  *)
(* real time since boot keeps an unbounded hi; millis() truncates it.      *)
(***************************************************************************)
EXTENDS Integers, Sequences, FiniteSets, TLC

VARIABLES
    pc,                     \* position in setup()/loop()
    now,                    \* real time since boot, ms, as limbs
    ticks,                  \* number of Tick steps taken (bounded)
    lastReading,            \* uint32_t lastReading
    lastConfigRead,         \* uint32_t lastConfigRead
    configDisplayed,        \* bool configDisplayed
    engineeringMode,        \* bool engineeringMode
    debugCounter,           \* static int debugCounter of printDetectionInfo
    attempt,                \* int attempt of setup()'s retry loop
    eng_success,            \* bool eng_success of setup()
    motion_sensitivity,     \* radar.motion_sensitivity[9]
    stationary_sensitivity, \* radar.stationary_sensitivity[9]
    console,                \* bytes waiting on MONITOR_SERIAL
    outstanding,            \* sensor commands issued and not yet returned
    hist,                   \* history of the library calls and their results
    sensorEng,              \* the sensor itself is in engineering mode
    stamps,                 \* real times at which the stamps/prints were made
    iter                    \* what the latest step of loop() did, and the reads of its iteration

vars == <<pc, now, ticks, lastReading, lastConfigRead, configDisplayed,
          engineeringMode, debugCounter, attempt, eng_success,
          motion_sensitivity, stationary_sensitivity, console, outstanding,
          hist, sensorEng, stamps, iter>>

(***************************************************************************)
(* Bounds of the model and constants of the program.                       *)
(***************************************************************************)
MaxTicks == 2
Limb == 2 ^ 16
NumGates == 9
MaxAttempts == 3
ReadsPerLoop == 10
DebugEvery == 50
DetectionPeriodMs == 500
DisconnectPeriodMs == 5000
ConfigRetryMs == 30000
UsbSettleMs == 2000
UartSettleMs == 1000
ConfigShowMs == 500
EngWaitMs == 1000
EngRetryMs == 1000

Gates == 0 .. (NumGates - 1)

(***************************************************************************)
(* Time arithmetic on limbs.                                               *)
(***************************************************************************)
Norm(h, l) == <<h + (l \div Limb), l % Limb>>

Ms(n) == Norm(0, n)

AddT(t, d) == Norm(t[1] + d[1], t[2] + d[2])

\* real difference of two real times
SubT(a, b) == Norm(a[1] - b[1], a[2] - b[2])

\* millis(): the real time truncated to 32 bits
Millis(t) == <<t[1] % Limb, t[2]>>

\* a subtraction that does not wrap and is clamped at 0 when a < b
Sub32Saturating(a, b) ==
    IF a[1] < b[1] \/ (a[1] = b[1] /\ a[2] < b[2])
    THEN <<0, 0>>
    ELSE Norm(a[1] - b[1], a[2] - b[2])

\* a - b on uint32_t: the difference modulo 2^32
Sub32(a, b) ==
    LET r == Norm(a[1] - b[1], a[2] - b[2])
    IN  <<r[1] % Limb, r[2]>>

\* t > n for a threshold n < 65536
GtMs(t, n) == t[1] > 0 \/ t[2] > n

\* millis() - last > n, as the code evaluates it
ElapsedOver(t, last, n) == GtMs(Sub32(Millis(t), last), n)

(***************************************************************************)
(* Serial output: a line is the sequence of its print calls.               *)
(***************************************************************************)
Txt(s) == [k |-> "txt", s |-> s, n |-> 0]
Num(n) == [k |-> "num", s |-> "", n |-> n]

RECURSIVE PrintGates(_, _)
\* for(int i = 0; i < 9; i++) { print(arr[i]); if(i < 8) print(","); }
PrintGates(arr, i) ==
    IF i < NumGates
    THEN <<Num(arr[i])>> \o (IF i < NumGates - 1 THEN <<Txt(",")>> ELSE <<>>)
         \o PrintGates(arr, i + 1)
    ELSE <<>>

\* a presence line that prints the target fields whatever the flags say
PresenceLineUnguarded(r) ==
    <<Txt("Presence: ")>> \o
    (IF r.presence
     THEN <<Txt("YES"),
            Txt(" | Stationary: "), Num(r.sDist), Txt("cm E:"), Num(r.sEnergy),
            Txt(" | Moving: "), Num(r.mDist), Txt("cm E:"), Num(r.mEnergy)>>
     ELSE <<Txt("NO")>>)

\* the "Presence: ..." line of printDetectionInfo
PresenceLine(r) ==
    <<Txt("Presence: ")>> \o
    (IF r.presence
     THEN <<Txt("YES")>>
          \o (IF r.stationary
              THEN <<Txt(" | Stationary: "), Num(r.sDist), Txt("cm E:"), Num(r.sEnergy)>>
              ELSE <<>>)
          \o (IF r.moving
              THEN <<Txt(" | Moving: "), Num(r.mDist), Txt("cm E:"), Num(r.mEnergy)>>
              ELSE <<>>)
     ELSE <<Txt("NO")>>)

GatesLine(r) ==
    <<Txt("GATES_MOV:")>> \o PrintGates(r.gatesMov, 0)
    \o <<Txt(" | GATES_STAT:")>> \o PrintGates(r.gatesStat, 0)

DebugLine == <<Txt("DEBUG: Engineering mode not enabled")>>

\* printDetectionInfo(): the lines printed and the new debugCounter
PrintDetectionInfo(r, eng, dbg) ==
    IF eng
    THEN [lines |-> <<PresenceLine(r), GatesLine(r)>>, dbg |-> dbg]
    ELSE IF dbg + 1 >= DebugEvery
         THEN [lines |-> <<PresenceLine(r), DebugLine>>, dbg |-> 0]
         ELSE [lines |-> <<PresenceLine(r)>>, dbg |-> dbg + 1]

RECURSIVE SensitivityLines(_, _, _)
\* for(int i = 0; i < 9; i++) { print(name); print(i); print(":"); println(arr[i]); }
SensitivityLines(name, arr, i) ==
    IF i < NumGates
    THEN <<(<<Txt(name), Num(i), Txt(":"), Num(arr[i])>>)>>
         \o SensitivityLines(name, arr, i + 1)
    ELSE <<>>

\* the reply to GET_CONFIG
ConfigReply(mot, stat) ==
    <<(<<Txt("CONFIG_START")>>)>>
    \o SensitivityLines("SENSITIVITY_MOTION:", mot, 0)
    \o SensitivityLines("SENSITIVITY_STATIC:", stat, 0)
    \o <<(<<Txt("CONFIG_END")>>)>>

(***************************************************************************)
(* Console input: a byte is a one-character string.                        *)
(***************************************************************************)
GET_CONFIG == <<"G", "E", "T", "_", "C", "O", "N", "F", "I", "G">>

Whitespace == {" ", "\t", "\r", "\n", "\f"}

RECURSIVE TrimLeft(_)
TrimLeft(s) ==
    IF s # <<>> /\ Head(s) \in Whitespace THEN TrimLeft(Tail(s)) ELSE s

RECURSIVE TrimRight(_)
TrimRight(s) ==
    IF s # <<>> /\ s[Len(s)] \in Whitespace
    THEN TrimRight(SubSeq(s, 1, Len(s) - 1))
    ELSE s

\* String::trim()
Trim(s) == TrimRight(TrimLeft(s))

RECURSIVE UntilNewline(_)
\* readStringUntil('\n'): the bytes before the first '\n' (all of them when
\* there is none and the read times out), and the bytes left in the buffer
UntilNewline(buf) ==
    IF buf = <<>> THEN [line |-> <<>>, rest |-> <<>>]
    ELSE IF Head(buf) = "\n" THEN [line |-> <<>>, rest |-> Tail(buf)]
    ELSE LET r == UntilNewline(Tail(buf))
         IN  [line |-> <<Head(buf)>> \o r.line, rest |-> r.rest]

\* a console handler that compares the line without trimming it
HandleCommandUntrimmed(line, mot, stat) ==
    IF line = GET_CONFIG THEN ConfigReply(mot, stat) ELSE <<>>

\* if(cmd == "GET_CONFIG") { ... }: the lines the console handler prints
HandleCommand(line, mot, stat) ==
    IF Trim(line) = GET_CONFIG THEN ConfigReply(mot, stat) ELSE <<>>

(***************************************************************************)
(* Inputs.                                                                 *)
(***************************************************************************)
\* the time that may pass before a loop() iteration; the last one brings
\* millis() within 6 s of its wrap-around
Deltas == {Ms(1), Ms(DetectionPeriodMs), Ms(DisconnectPeriodMs), <<Limb - 1, Limb - 6000>>}

\* what may arrive on the console before an iteration
ConsoleInputs ==
    { <<>>,
      GET_CONFIG \o <<"\n">>,
      <<" ">> \o GET_CONFIG \o <<"\r", "\n">>,
      GET_CONFIG,
      GET_CONFIG \o <<"2", "\n">>,
      <<"G", "E", "T", " ", "_", "C", "O", "N", "F", "I", "G", "\n">>,
      <<"\n">>,
      <<"X", "\n">> \o GET_CONFIG \o <<"\n">> }

\* what the radar object may report when it is read
Radars ==
    [presence : BOOLEAN, stationary : BOOLEAN, moving : BOOLEAN,
     sDist : {75}, sEnergy : {40}, mDist : {120}, mEnergy : {60},
     gatesMov : {[i \in Gates |-> i]}, gatesStat : {[i \in Gates |-> 10 + i]}]

NoRadar ==
    [presence |-> FALSE, stationary |-> FALSE, moving |-> FALSE,
     sDist |-> 0, sEnergy |-> 0, mDist |-> 0, mEnergy |-> 0,
     gatesMov |-> [i \in Gates |-> 0], gatesStat |-> [i \in Gates |-> 0]]

\* configurations the sensor may report
Configs ==
    { [mot |-> [i \in Gates |-> 50 - 5 * i], stat |-> [i \in Gates |-> 10 + i]],
      [mot |-> [i \in Gates |-> 100], stat |-> [i \in Gates |-> 2 * i]] }

\* units waiting on the radar link when an iteration starts
Backlogs == {0, 4, 12}

(***************************************************************************)
(* The state after construction: the globals of lines 24-28, millis() = 0. *)
(***************************************************************************)
NoTime == [has |-> FALSE, t |-> <<0, 0>>]

NoProbe ==
    [kind |-> "none", elapsed |-> <<0, 0>>, fired |-> FALSE, wrapped |-> FALSE,
     hasGap |-> FALSE, gap |-> <<0, 0>>]

\* a step of loop() that has observed nothing
Iter0 ==
    [reads |-> 0, backlog |-> 0, left |-> 0,
     got |-> FALSE, line |-> <<>>, reply |-> <<>>, calls |-> 0,
     connected |-> "none", radar |-> NoRadar, mode |-> FALSE, printed |-> FALSE,
     detect |-> <<>>, warned |-> FALSE, probe |-> NoProbe,
     cfgElapsed |-> <<0, 0>>]

Init ==
    /\ pc = "setup"
    /\ now = <<0, 0>>
    /\ ticks = 0
    /\ lastReading = <<0, 0>>
    /\ lastConfigRead = <<0, 0>>
    /\ configDisplayed = FALSE
    /\ engineeringMode = FALSE
    /\ debugCounter = 0
    /\ attempt = 0
    /\ eng_success = FALSE
    /\ motion_sensitivity = [i \in Gates |-> 0]
    /\ stationary_sensitivity = [i \in Gates |-> 0]
    /\ console = <<>>
    /\ outstanding = 0
    /\ hist = [begun |-> "none", cfgCalls |-> 0, cfgResult |-> "none",
               engCalls |-> 0, engOk |-> FALSE, callsAfterOk |-> 0]
    /\ sensorEng = FALSE
    /\ stamps = [reading |-> <<0, 0>>, config |-> <<0, 0>>,
                 detect |-> NoTime, warn |-> NoTime]
    /\ iter = Iter0

(***************************************************************************)
(* Sensor commands: requestCurrentConfiguration and                        *)
(* requestStartEngineeringMode block until the library returns.            *)
(***************************************************************************)
\* a command is issued (the calls of lines 165, 188 and 258)
Issued(n) == n + 1

\* a call that has not returned when the code goes on
NotReturned(n) == n

\* the command has returned when the code after the call runs
Returned(n) == n - 1

(***************************************************************************)
(* setup()                                                                 *)
(***************************************************************************)
\* lines 116-149: the serial ports are opened and radar.begin is called
SetupBegin ==
    /\ pc = "setup"
    /\ now' = AddT(AddT(now, Ms(UsbSettleMs)), Ms(UartSettleMs))
    /\ pc' = "setup_begin_wait"
    /\ UNCHANGED <<ticks, lastReading, lastConfigRead, configDisplayed,
                   engineeringMode, debugCounter, attempt, eng_success,
                   motion_sensitivity, stationary_sensitivity, console,
                   outstanding, hist, sensorEng, stamps, iter>>

\* lines 149-165 and 211-213: radar.begin returns; on success the
\* configuration is requested
SetupBeginReturn(ok) ==
    /\ pc = "setup_begin_wait"
    /\ IF ok
       THEN /\ hist' = [hist EXCEPT !.begun = "ok", !.cfgCalls = @ + 1]
            /\ outstanding' = Issued(outstanding)
            /\ pc' = "setup_cfg_wait"
       ELSE /\ hist' = [hist EXCEPT !.begun = "fail"]
            /\ outstanding' = outstanding
            /\ pc' = "loop_read"
    /\ UNCHANGED <<now, ticks, lastReading, lastConfigRead, configDisplayed,
                   engineeringMode, debugCounter, attempt, eng_success,
                   motion_sensitivity, stationary_sensitivity, console,
                   sensorEng, stamps, iter>>

\* lines 165-188: requestCurrentConfiguration returns; then the first attempt
\* to enable engineering mode is made
SetupConfigReturn(ok, cfg) ==
    /\ pc = "setup_cfg_wait"
    /\ configDisplayed' = (ok \/ configDisplayed)
    /\ motion_sensitivity' = IF ok THEN cfg.mot ELSE motion_sensitivity
    /\ stationary_sensitivity' = IF ok THEN cfg.stat ELSE stationary_sensitivity
    /\ now' = AddT(AddT(now, IF ok THEN Ms(ConfigShowMs) ELSE Ms(0)), Ms(EngWaitMs))
    /\ attempt' = 0
    /\ eng_success' = FALSE
    /\ hist' = [hist EXCEPT !.cfgResult = IF ok THEN "ok" ELSE "fail",
                            !.engCalls = @ + 1,
                            !.callsAfterOk = @ + (IF hist.engOk THEN 1 ELSE 0)]
    /\ outstanding' = Issued(Returned(outstanding))
    /\ pc' = "setup_eng_wait"
    /\ UNCHANGED <<ticks, lastReading, lastConfigRead, engineeringMode,
                   debugCounter, console, sensorEng, stamps, iter>>

\* a loop header that allows one attempt too many
RetryOffByOne(att) == att + 1 <= MaxAttempts

\* line 182: after a failed attempt, attempt++ and the test attempt < 3
Retry(att) == att + 1 < MaxAttempts

\* lines 188-209: requestStartEngineeringMode returns
SetupEngReturn(ok) ==
    /\ pc = "setup_eng_wait"
    /\ IF ok
       THEN /\ engineeringMode' = TRUE
            /\ eng_success' = TRUE
            /\ sensorEng' = TRUE
            /\ hist' = [hist EXCEPT !.engOk = TRUE]
            /\ outstanding' = Returned(outstanding)
            /\ pc' = "loop_read"
            /\ UNCHANGED <<now, attempt>>
       ELSE /\ now' = AddT(now, Ms(EngRetryMs))
            /\ attempt' = attempt + 1
            /\ IF Retry(attempt)
               THEN /\ hist' = [hist EXCEPT !.engCalls = @ + 1,
                                            !.callsAfterOk = @ + (IF hist.engOk THEN 1 ELSE 0)]
                    /\ outstanding' = Issued(Returned(outstanding))
                    /\ pc' = "setup_eng_wait"
               ELSE /\ hist' = hist
                    /\ outstanding' = Returned(outstanding)
                    /\ pc' = "loop_read"
            /\ UNCHANGED <<engineeringMode, eng_success, sensorEng>>
    /\ UNCHANGED <<ticks, lastReading, lastConfigRead, configDisplayed,
                   debugCounter, motion_sensitivity, stationary_sensitivity,
                   console, stamps, iter>>

(***************************************************************************)
(* loop()                                                                  *)
(***************************************************************************)
RECURSIVE ReadLoopDraining(_, _, _)
\* a read loop that stops as soon as nothing is waiting
ReadLoopDraining(i, waiting, calls) ==
    IF i < ReadsPerLoop /\ waiting > 0
    THEN ReadLoopDraining(i + 1, waiting - 1, calls + 1)
    ELSE [calls |-> calls, left |-> waiting]

RECURSIVE ReadLoop(_, _, _)
\* for(int i = 0; i < 10; i++) radar.read();  each call takes one waiting
\* unit off the radar link when there is one
ReadLoop(i, waiting, calls) ==
    IF i < ReadsPerLoop
    THEN ReadLoop(i + 1, IF waiting > 0 THEN waiting - 1 ELSE 0, calls + 1)
    ELSE [calls |-> calls, left |-> waiting]

\* lines 216-221: a new iteration starts with the radar reads
LoopRead(waiting) ==
    /\ pc = "loop_read"
    /\ LET r == ReadLoop(0, waiting, 0)
       IN  iter' = [Iter0 EXCEPT !.reads = r.calls, !.backlog = waiting,
                                 !.left = r.left,
                                 !.calls = hist.cfgCalls + hist.engCalls]
    /\ pc' = "loop_console"
    /\ UNCHANGED <<now, ticks, lastReading, lastConfigRead, configDisplayed,
                   engineeringMode, debugCounter, attempt, eng_success,
                   motion_sensitivity, stationary_sensitivity, console,
                   outstanding, hist, sensorEng, stamps>>

\* lines 223-245: the console command, when bytes are waiting (new bytes
\* arrive only on an empty buffer)
LoopConsole ==
    /\ pc = "loop_console"
    /\ \E arriving \in (IF console = <<>> THEN ConsoleInputs ELSE {<<>>}) :
       LET buf == console \o arriving
           rd == UntilNewline(buf)
       IN  IF buf # <<>>
           THEN /\ console' = rd.rest
                /\ iter' = [Iter0 EXCEPT !.reads = iter.reads, !.calls = iter.calls,
                                         !.got = TRUE, !.line = rd.line,
                                         !.reply = HandleCommand(rd.line, motion_sensitivity,
                                                                 stationary_sensitivity)]
           ELSE /\ console' = console
                /\ iter' = [Iter0 EXCEPT !.reads = iter.reads, !.calls = iter.calls]
    /\ pc' = "loop_conn"
    /\ UNCHANGED <<now, ticks, lastReading, lastConfigRead, configDisplayed,
                   engineeringMode, debugCounter, attempt, eng_success,
                   motion_sensitivity, stationary_sensitivity, outstanding,
                   hist, sensorEng, stamps>>

\* a < b on two 32-bit values
Less32(a, b) == a[1] < b[1] \/ (a[1] = b[1] /\ a[2] < b[2])

\* the retry test of line 255 without its configDisplayed conjunct
ConfigDueAlways(t, shown, last) == ElapsedOver(t, last, ConfigRetryMs)

\* line 255: !configDisplayed && millis() - lastConfigRead > 30000
ConfigDue(t, shown, last) == ~shown /\ ElapsedOver(t, last, ConfigRetryMs)

\* lines 247-263: the radar is connected
LoopConnected(r) ==
    /\ pc = "loop_conn"
    /\ LET due == ElapsedOver(now, lastReading, DetectionPeriodMs)
           p == PrintDetectionInfo(r, engineeringMode, debugCounter)
           cfg == ConfigDue(now, configDisplayed, lastConfigRead)
       IN  /\ r = NoRadar <=> ~due
           /\ lastReading' = IF due THEN Millis(now) ELSE lastReading
           /\ debugCounter' = IF due THEN p.dbg ELSE debugCounter
           /\ lastConfigRead' = IF cfg THEN Millis(now) ELSE lastConfigRead
           /\ hist' = IF cfg THEN [hist EXCEPT !.cfgCalls = @ + 1] ELSE hist
           /\ outstanding' = IF cfg THEN Issued(outstanding) ELSE outstanding
           /\ pc' = IF cfg THEN "loop_cfg_wait" ELSE "loop_read"
           /\ stamps' = [stamps EXCEPT
                           !.reading = IF due THEN now ELSE @,
                           !.detect = IF due THEN [has |-> TRUE, t |-> now] ELSE @,
                           !.config = IF cfg THEN now ELSE @]
           /\ iter' = [Iter0 EXCEPT
                         !.reads = iter.reads,
                         !.connected = "yes",
                         !.radar = r,
                         !.mode = sensorEng,
                         !.printed = due,
                         !.detect = IF due THEN p.lines ELSE <<>>,
                         !.cfgElapsed = SubT(now, stamps.config),
                         !.probe = [kind |-> "detect",
                                    elapsed |-> SubT(now, stamps.reading),
                                    fired |-> due,
                                    wrapped |-> Less32(Millis(now), lastReading),
                                    hasGap |-> due /\ stamps.detect.has,
                                    gap |-> IF due /\ stamps.detect.has
                                            THEN SubT(now, stamps.detect.t)
                                            ELSE <<0, 0>>]]
    /\ UNCHANGED <<now, ticks, configDisplayed, engineeringMode, attempt,
                   eng_success, motion_sensitivity, stationary_sensitivity,
                   console, sensorEng>>

\* lines 264-269: the radar is not connected
LoopDisconnected ==
    /\ pc = "loop_conn"
    /\ LET due == ElapsedOver(now, lastReading, DisconnectPeriodMs)
       IN  /\ lastReading' = IF due THEN Millis(now) ELSE lastReading
           /\ stamps' = [stamps EXCEPT
                           !.reading = IF due THEN now ELSE @,
                           !.warn = IF due THEN [has |-> TRUE, t |-> now] ELSE @]
           /\ iter' = [Iter0 EXCEPT
                         !.reads = iter.reads,
                         !.connected = "no",
                         !.warned = due,
                         !.probe = [kind |-> "warn",
                                    elapsed |-> SubT(now, stamps.reading),
                                    fired |-> due,
                                    wrapped |-> Less32(Millis(now), lastReading),
                                    hasGap |-> due /\ stamps.warn.has,
                                    gap |-> IF due /\ stamps.warn.has
                                            THEN SubT(now, stamps.warn.t)
                                            ELSE <<0, 0>>]]
    /\ pc' = "loop_read"
    /\ UNCHANGED <<now, ticks, lastConfigRead, configDisplayed, engineeringMode,
                   debugCounter, attempt, eng_success, motion_sensitivity,
                   stationary_sensitivity, console, outstanding, hist, sensorEng>>

\* lines 258-262: the retried requestCurrentConfiguration returns
LoopConfigReturn(ok, cfg) ==
    /\ pc = "loop_cfg_wait"
    /\ configDisplayed' = (ok \/ configDisplayed)
    /\ motion_sensitivity' = IF ok THEN cfg.mot ELSE motion_sensitivity
    /\ stationary_sensitivity' = IF ok THEN cfg.stat ELSE stationary_sensitivity
    /\ now' = IF ok THEN AddT(now, Ms(ConfigShowMs)) ELSE now
    /\ hist' = [hist EXCEPT !.cfgResult = IF ok THEN "ok" ELSE "fail"]
    /\ outstanding' = Returned(outstanding)
    /\ pc' = "loop_read"
    /\ UNCHANGED <<ticks, lastReading, lastConfigRead, engineeringMode,
                   debugCounter, attempt, eng_success, console, sensorEng,
                   stamps, iter>>

(***************************************************************************)
(* The environment.                                                        *)
(***************************************************************************)
\* time passes before the next iteration of loop() (the millis() of lines
\* 249-266 has advanced); what the finished iteration observed is history
Tick(d) ==
    /\ pc = "loop_read"
    /\ ticks < MaxTicks
    /\ ticks' = ticks + 1
    /\ now' = AddT(now, d)
    /\ iter' = Iter0
    /\ UNCHANGED <<pc, lastReading, lastConfigRead, configDisplayed,
                   engineeringMode, debugCounter, attempt, eng_success,
                   motion_sensitivity, stationary_sensitivity, console,
                   outstanding, hist, sensorEng, stamps>>

\* the sensor restarts (the disconnection that lines 264-268 report) and
\* comes back in its basic mode
SensorRestart ==
    /\ sensorEng
    /\ sensorEng' = FALSE
    /\ UNCHANGED <<pc, now, ticks, lastReading, lastConfigRead, configDisplayed,
                   engineeringMode, debugCounter, attempt, eng_success,
                   motion_sensitivity, stationary_sensitivity, console,
                   outstanding, hist, stamps, iter>>

Next ==
    \/ SetupBegin
    \/ \E ok \in BOOLEAN : SetupBeginReturn(ok)
    \/ \E ok \in BOOLEAN, cfg \in Configs : SetupConfigReturn(ok, cfg)
    \/ \E ok \in BOOLEAN : SetupEngReturn(ok)
    \/ \E w \in Backlogs : LoopRead(w)
    \/ LoopConsole
    \/ \E r \in Radars \cup {NoRadar} : LoopConnected(r)
    \/ LoopDisconnected
    \/ \E ok \in BOOLEAN, cfg \in Configs : LoopConfigReturn(ok, cfg)
    \/ \E d \in Deltas : Tick(d)
    \/ SensorRestart

Spec == Init /\ [][Next]_vars

(***************************************************************************)
(* Properties.                                                             *)
(***************************************************************************)
LoopPcs == {"loop_read", "loop_console", "loop_conn", "loop_cfg_wait"}

WaitPcs == {"setup_cfg_wait", "setup_eng_wait", "loop_cfg_wait"}

\* some print call of the output is the text s
Shows(out, s) ==
    \E l \in 1 .. Len(out) : \E k \in 1 .. Len(out[l]) : out[l][k] = Txt(s)

\* the print calls Txt(s), Num(a), Txt("cm E:"), Num(b) follow each other in line
ShowsTarget(line, s, a, b) ==
    \E k \in 1 .. Len(line) - 3 :
        /\ line[k] = Txt(s)
        /\ line[k + 1] = Num(a)
        /\ line[k + 2] = Txt("cm E:")
        /\ line[k + 3] = Num(b)

\* C1: when setup() has ended after a successful radar.begin,
\* requestStartEngineeringMode was called at least once and at most 3 times,
\* never again after an attempt that returned success, and engineeringMode
\* is true exactly when an attempt returned success; when radar.begin failed
\* no attempt was made and engineeringMode is false.
C1_EngineeringRetries ==
    /\ hist.callsAfterOk = 0
    /\ hist.engCalls <= MaxAttempts
    /\ engineeringMode <=> hist.engOk
    /\ pc \in LoopPcs =>
         /\ hist.begun \in {"ok", "fail"}
         /\ hist.begun = "ok" => hist.engCalls >= 1
         /\ hist.begun = "fail" => hist.engCalls = 0 /\ ~engineeringMode
         /\ engineeringMode <=> eng_success

\* setup() has ended with engineering mode enabled by the second attempt
C1_Witness ==
    /\ pc = "loop_read"
    /\ hist.begun = "ok"
    /\ hist.engCalls = 2
    /\ engineeringMode

\* C2: at every point of setup() and of every loop() iteration at most one
\* sensor command is outstanding, and one is outstanding exactly while the
\* code waits inside a request call.
C2_OneCommandOutstanding ==
    /\ outstanding \in {0, 1}
    /\ outstanding = 1 <=> pc \in WaitPcs

\* the configuration retry of loop() is outstanding after the requests of setup()
C2_Witness ==
    /\ pc = "loop_cfg_wait"
    /\ outstanding = 1
    /\ hist.cfgCalls = 2
    /\ hist.engCalls = MaxAttempts

\* the guards of printDetectionInfo on the target fields
TargetsGuarded ==
    LET r == iter.radar
        line == iter.detect[1]
    IN  /\ Shows(iter.detect, " | Stationary: ") =>
              r.presence /\ r.stationary
              /\ ShowsTarget(line, " | Stationary: ", r.sDist, r.sEnergy)
        /\ Shows(iter.detect, " | Moving: ") =>
              r.presence /\ r.moving
              /\ ShowsTarget(line, " | Moving: ", r.mDist, r.mEnergy)
        /\ ~r.presence =>
              ~Shows(iter.detect, " | Stationary: ") /\ ~Shows(iter.detect, " | Moving: ")
        /\ (r.presence /\ r.stationary) => Shows(iter.detect, " | Stationary: ")
        /\ (r.presence /\ r.moving) => Shows(iter.detect, " | Moving: ")

C4_GatesOnlyInEngineeringMode ==
    (iter.printed /\ Shows(iter.detect, "GATES_MOV:")) => iter.mode

\* line, trimmed, is GET_CONFIG: whitespace, then GET_CONFIG, then whitespace
IsGetConfig(line) ==
    \E i \in 0 .. Len(line) :
        /\ i + Len(GET_CONFIG) <= Len(line)
        /\ SubSeq(line, i + 1, i + Len(GET_CONFIG)) = GET_CONFIG
        /\ \A k \in 1 .. Len(line) :
              (k <= i \/ k > i + Len(GET_CONFIG)) => line[k] \in Whitespace

\* C5: a console line that is GET_CONFIG after trimming is answered in the
\* same iteration by CONFIG_START, the 9 SENSITIVITY_MOTION lines and the 9
\* SENSITIVITY_STATIC lines for gates 0..8 in order with the values held,
\* and CONFIG_END; any other line, or none, gets no reply; handling the
\* console issues no sensor command.
C5_GetConfigReply ==
    pc = "loop_conn" =>
        /\ (iter.got /\ IsGetConfig(iter.line)) =>
              /\ Len(iter.reply) = 2 * NumGates + 2
              /\ iter.reply[1] = <<Txt("CONFIG_START")>>
              /\ \A g \in Gates :
                    /\ iter.reply[2 + g] =
                          <<Txt("SENSITIVITY_MOTION:"), Num(g), Txt(":"),
                            Num(motion_sensitivity[g])>>
                    /\ iter.reply[2 + NumGates + g] =
                          <<Txt("SENSITIVITY_STATIC:"), Num(g), Txt(":"),
                            Num(stationary_sensitivity[g])>>
              /\ iter.reply[2 * NumGates + 2] = <<Txt("CONFIG_END")>>
        /\ ~(iter.got /\ IsGetConfig(iter.line)) => iter.reply = <<>>
        /\ hist.cfgCalls + hist.engCalls = iter.calls
        /\ outstanding = 0

\* " GET_CONFIG\r" was read and answered with a configuration read from the sensor
C5_Witness ==
    /\ pc = "loop_conn"
    /\ iter.got
    /\ iter.line = <<" ">> \o GET_CONFIG \o <<"\r">>
    /\ iter.reply # <<>>
    /\ configDisplayed

\* C8: in loop() requestCurrentConfiguration is issued only when the radar is
\* connected, configDisplayed is false and more than 30000 ms have passed
\* since lastConfigRead was set; configDisplayed becomes true only when a
\* configuration request returns success, never becomes false again, and
\* once it is true no configuration request is issued.
C8_ConfigRetry ==
    [][ /\ (pc \in LoopPcs /\ hist'.cfgCalls # hist.cfgCalls) =>
              /\ pc = "loop_conn"
              /\ iter'.connected = "yes"
              /\ ~configDisplayed
              /\ GtMs(SubT(now, stamps.config), ConfigRetryMs)
        /\ (configDisplayed' /\ ~configDisplayed) =>
              /\ pc \in {"setup_cfg_wait", "loop_cfg_wait"}
              /\ hist'.cfgResult = "ok"
        /\ configDisplayed => configDisplayed'
        /\ configDisplayed => hist'.cfgCalls = hist.cfgCalls ]_vars

\* the request of setup() failed and the retry of loop() succeeded
C8_Witness ==
    /\ pc = "loop_read"
    /\ hist.begun = "ok"
    /\ hist.cfgCalls = 2
    /\ configDisplayed

\* C9: detection info is printed only when isConnected() is true and two
\* consecutive detection prints are more than 500 ms apart; the disconnect
\* warning is printed only when isConnected() is false and two consecutive
\* warnings are more than 5000 ms apart; and whenever less than 2^32 ms have
\* passed since lastReading was set, each test fires exactly when more than
\* its period has really passed, also across a wrap of millis().
C9_Timing ==
    LET p == iter.probe
    IN  /\ iter.printed => iter.connected = "yes" /\ p.kind = "detect" /\ p.fired
        /\ iter.warned => iter.connected = "no" /\ p.kind = "warn" /\ p.fired
        /\ (p.kind = "detect" /\ p.hasGap) => GtMs(p.gap, DetectionPeriodMs)
        /\ (p.kind = "warn" /\ p.hasGap) => GtMs(p.gap, DisconnectPeriodMs)
        /\ (p.kind = "detect" /\ p.elapsed[1] < Limb) =>
              (p.fired <=> GtMs(p.elapsed, DetectionPeriodMs))
        /\ (p.kind = "warn" /\ p.elapsed[1] < Limb) =>
              (p.fired <=> GtMs(p.elapsed, DisconnectPeriodMs))
        /\ p.kind = "detect" => (p.fired <=> iter.printed)
        /\ p.kind = "warn" => (p.fired <=> iter.warned)

\* a detection print after millis() has wrapped since the previous one
C9_Witness ==
    /\ iter.printed
    /\ iter.probe.wrapped
    /\ iter.probe.hasGap
    /\ iter.probe.elapsed[1] = 0

\* C10: every loop() iteration calls radar.read() exactly 10 times before it
\* handles the console or prints, whether nothing or more than 10 units are
\* waiting on the radar link.
C10_TenReads ==
    /\ pc \in (LoopPcs \ {"loop_read"}) => iter.reads = ReadsPerLoop
    /\ pc = "loop_console" =>
          /\ ~iter.got /\ iter.reply = <<>>
          /\ ~iter.printed /\ ~iter.warned /\ iter.connected = "none"
          /\ iter.backlog \in Backlogs

\* nothing was waiting on the radar link and the reads were made all the same
C10_Witness ==
    /\ pc = "loop_console"
    /\ iter.backlog = 0
    /\ iter.reads = ReadsPerLoop
    /\ ticks > 0

====
